---- MODULE Spec2Model ----
(***************************************************************************)
(* Model of the multiplexed WebRTC datagram server of src/src/server.rs:   *)
(* the SessionEndpoint and its bounded offer channel, the Server's session *)
(* and client tables, its three-way event loop (process), its housekeeping *)
(* and its public operations (recv, send, disconnect, shutdown).           *)
(*                                                                         *)
(* Every handler is one action: the Server is owned by one task (&mut      *)
(* self), so between two suspension points of a handler nothing else can   *)
(* touch its tables.  The outcome of every socket call and of every        *)
(* DTLS/SCTP step is a nondeterministic choice.  The Client (client.rs),   *)
(* the STUN codec (stun.rs) and the timer (interval.rs) are not among the  *)
(* source files; they are modelled from their description in spec.md.      *)
(***************************************************************************)
EXTENDS Integers, Sequences, FiniteSets, TLC

----------------------------------------------------------------------------
(* Program constants.  Durations are in seconds.                           *)

SESSION_BUFFER_SIZE == 8
MAX_UDP_PAYLOAD_SIZE == 1500
MAX_MESSAGE_LEN == 1160
RTC_CONNECTION_TIMEOUT == 10
RTC_SESSION_TIMEOUT == 30
CLEANUP_INTERVAL == 10
PERIODIC_PACKET_INTERVAL == 1

(* Bounds of the model.                                                    *)

\* the clock stops advancing at MaxTime
MaxTime == 30
\* the clock advances by TimeStep seconds at a time
TimeStep == 10
\* offers on their way to the Server (sent or being sent) at one time, in Spec
MaxOffers == 1
\* UDP packets one DTLS/SCTP step can leave in a client's output queue
MaxBurst == 2
\* packets a failed send_outgoing may leave in outgoing_udp
MaxQueued == 2

Addrs == {"a1", "a2"}
ServerUsers == {"u1"}
RemoteUsers == {"r1"}
Passwds == {"p1", "p2"}
Producers == {"e1", "e2"}
MessageTypes == {"Binary", "Text"}
\* the batches of application messages one incoming packet can yield
MsgBatches == {<<>>, <<"Binary">>, <<"Text", "Binary">>}

NoAddr == "none"
EmptyMap == [x \in {} |-> 0]

Min(a, b) == IF a < b THEN a ELSE b

\* a set as a sequence, in some fixed order
RECURSIVE SetToSeq(_)
SetToSeq(S) ==
  IF S = {} THEN <<>> ELSE LET x == CHOOSE y \in S : TRUE IN <<x>> \o SetToSeq(S \ {x})

VARIABLES
  now,                    \* the wall clock (Instant::now())
  event_cb,               \* EVENT_CB is Some
  server,                 \* "running", "panicked" (a handler panicked) or "dropped"
  socket_open,            \* the UDP socket is open
  chan,                   \* the offer channel (flume::bounded)
  prod,                   \* each endpoint clone's call of session_request
  sessions,               \* Server.sessions
  clients,                \* Server.clients
  outgoing_udp,           \* Server.outgoing_udp
  incoming_rtc,           \* Server.incoming_rtc
  last_generate_periodic, \* Server.last_generate_periodic
  last_cleanup,           \* Server.last_cleanup
  last,                   \* the operation that ran last and what it did
  authenticated,          \* history: addresses a valid-integrity STUN binding came from
  shutdown_called         \* history: shutdown() has returned

vars == <<now, event_cb, server, socket_open, chan, prod, sessions,
          clients, outgoing_udp, incoming_rtc, last_generate_periodic,
          last_cleanup, last, authenticated, shutdown_called>>

srvvars == <<sessions, clients, outgoing_udp, incoming_rtc,
             last_generate_periodic, last_cleanup>>

----------------------------------------------------------------------------
(* Maps with a growing and shrinking domain (HashMap).                     *)

MapInsert(m, k, v) == [x \in DOMAIN m \cup {k} |-> IF x = k THEN v ELSE m[x]]
MapRestrict(m, S) == [x \in S \cap DOMAIN m |-> m[x]]

(* SessionKey and Session, server.rs:612-621 *)
SessionKey(su, ru) == [server_user |-> su, remote_user |-> ru]
Session(pw, t) == [server_passwd |-> pw, ttl |-> t]

----------------------------------------------------------------------------
(* The Client: its state machine and its operations, as spec.md 4.5        *)
(* describes them.  A client is a record: its state, its last-activity     *)
(* timestamp, and the number of UDP packets waiting in its output queue.   *)

ClientStates == {"Starting", "Established", "ShuttingDown", "Shutdown"}

ClientNew(t) == [state |-> "Starting", last_activity |-> t, pending |-> 0]

is_established(c) == c.state = "Established"
is_shutdown(c) == c.state = "Shutdown"
shutdown_started(c) == c.state \in {"ShuttingDown", "Shutdown"}

\* start_shutdown that starts over on every call
start_shutdown_again(c) ==
  [started |-> TRUE,
   client |-> [c EXCEPT !.state = "ShuttingDown",
                        !.pending = IF is_established(c) \/ shutdown_started(c)
                                      THEN @ + 1 ELSE @]]

\* start_shutdown: true the first time, false on a repeat call; an Established
\* client queues its DTLS close-notify.
start_shutdown(c) ==
  IF shutdown_started(c)
    THEN [started |-> FALSE, client |-> c]
    ELSE [started |-> TRUE,
          client |-> [c EXCEPT !.state = "ShuttingDown",
                               !.pending = IF is_established(c) THEN @ + 1 ELSE @]]

\* receive_incoming_packet: ok is DTLS/SCTP accepting the packet, est the
\* handshake completing with it, k the packets it makes the client answer with.
receive_incoming_packet(c, ok, est, k, t) ==
  IF ~ok
    THEN [err |-> TRUE, client |-> c]
    ELSE [err |-> FALSE,
          client |-> [c EXCEPT !.state = IF @ = "Starting" /\ est THEN "Established" ELSE @,
                               !.last_activity = t,
                               !.pending = IF shutdown_started(c) THEN @ ELSE @ + k]]

\* take_outgoing_packets: the output queue is drained; a client that was
\* shutting down has then flushed its close-notify and is shut down.
take_outgoing_packets(c) ==
  [n |-> c.pending,
   client |-> [c EXCEPT !.pending = 0,
                        !.state = IF @ = "ShuttingDown" THEN "Shutdown" ELSE @]]

\* generate_periodic: SCTP heartbeats and retransmissions of a live association.
generate_periodic(c, ok, k) ==
  IF ~ok
    THEN [err |-> TRUE, client |-> c]
    ELSE [err |-> FALSE,
          client |-> [c EXCEPT !.pending = IF is_established(c) THEN @ + k ELSE @]]

\* send_message: one datagram; ok is DTLS/SCTP accepting the write.
send_message(c, len, ok) ==
  IF ~is_established(c) THEN [res |-> "NotConnected", client |-> c]
  ELSE IF len > MAX_MESSAGE_LEN THEN [res |-> "IncompletePacketWrite", client |-> c]
  ELSE IF ~ok THEN [res |-> "TransportError", client |-> c]
  ELSE [res |-> "Ok", client |-> [c EXCEPT !.pending = @ + 1]]

\* the packets a client hands over, each tagged with the client's address
Packet(addr, kind) == [to |-> addr, kind |-> kind]
Repeat(x, n) == [i \in 1..n |-> x]

----------------------------------------------------------------------------
(* The STUN codec (stun.rs), as spec.md 4.4 describes it, and the socket.  *)
(* A datagram on the wire is a record: kind "stun" (a well-formed binding  *)
(* request, with its USERNAME and the key its MESSAGE-INTEGRITY was        *)
(* computed with, "none" when it carries none) or "data" (anything else),  *)
(* and len, its payload size in bytes.                                     *)

StunPackets ==
  [kind : {"stun"}, server_user : ServerUsers, remote_user : RemoteUsers,
   integrity : Passwds \cup {"none"}, len : {100}]
  \cup [kind : {"stun"}, server_user : {"bogus"}, remote_user : RemoteUsers,
        integrity : {"none"}, len : {100}]
DataPackets ==
  [kind : {"data"}, server_user : {"-"}, remote_user : {"-"}, integrity : {"none"},
   len : {MAX_UDP_PAYLOAD_SIZE, MAX_UDP_PAYLOAD_SIZE + 1}]
Datagrams == StunPackets \cup DataPackets
\* the datagrams that fit the receive buffer
Fitting == {d \in Datagrams : d.len <= MAX_UDP_PAYLOAD_SIZE}

\* recv_from into a buffer of buflen bytes: the bytes past the buffer are lost
recv_from(pkt, buflen) == [len |-> Min(pkt.len, buflen), truncated |-> pkt.len > buflen]

\* parse_stun_binding_request(bytes): it is given the packet's bytes and nothing
\* else, so it checks no MESSAGE-INTEGRITY; a cut packet is malformed.
parse_stun_binding_request(pkt, truncated) ==
  IF pkt.kind = "stun" /\ ~truncated
    THEN [some |-> TRUE, server_user |-> pkt.server_user, remote_user |-> pkt.remote_user]
    ELSE [some |-> FALSE, server_user |-> "-", remote_user |-> "-"]

\* the request's MESSAGE-INTEGRITY is valid under the session it names
ValidIntegrity(ss, pkt) ==
  /\ pkt.kind = "stun"
  /\ SessionKey(pkt.server_user, pkt.remote_user) \in DOMAIN ss
  /\ pkt.integrity = ss[SessionKey(pkt.server_user, pkt.remote_user)].server_passwd

----------------------------------------------------------------------------
(* The Server's handlers, as functions of the tables they work on.         *)

Event(code, addr) == [code |-> code, addr |-> addr]

\* accept_session that keeps the entry a key already has
accept_session_keep_first(ss, inc, t) ==
  IF SessionKey(inc.server_user, inc.remote_user) \in DOMAIN ss
    THEN ss
    ELSE MapInsert(ss, SessionKey(inc.server_user, inc.remote_user),
                   Session(inc.server_passwd, t))

\* Server::accept_session, server.rs:563-574
accept_session(ss, inc, t) ==
  MapInsert(ss, SessionKey(inc.server_user, inc.remote_user), Session(inc.server_passwd, t))

\* Server::send_outgoing, server.rs:434-447.  fail_at = 0: every send_to wrote
\* its whole packet; fail_at = i: the i-th send_to failed or wrote short, and
\* the function returned with the packets behind it still queued.
send_outgoing(q, fail_at) ==
  IF fail_at = 0
    THEN [ok |-> TRUE, queue |-> <<>>, sent |-> q]
    ELSE [ok |-> FALSE, queue |-> SubSeq(q, fail_at + 1, Len(q)),
          sent |-> SubSeq(q, 1, fail_at - 1)]

\* lookup_session comparing the peer's half of the USERNAME only
lookup_session_remote_only(ss, req) ==
  LET hits == {k \in DOMAIN ss : k.remote_user = req.remote_user}
  IN IF hits = {} THEN [found |-> FALSE, key |-> SessionKey(req.server_user, req.remote_user)]
     ELSE [found |-> TRUE, key |-> CHOOSE k \in hits : TRUE]

\* sessions.get_mut(&SessionKey {..}), server.rs:454-457
lookup_session(ss, req) ==
  LET key == SessionKey(req.server_user, req.remote_user)
  IN [found |-> key \in DOMAIN ss, key |-> key]

\* what a datagram handler leaves behind
Handled(ss, cs, out, rtc, events, panic) ==
  [sessions |-> ss, clients |-> cs, outgoing_udp |-> out, incoming_rtc |-> rtc,
   events |-> events, panic |-> panic]

\* answer_binding taking the session out of the table when it makes the Client
answer_binding_consume(ss, cs, out, rtc, cb, addr, key, cl_ok, t) ==
  LET ss1 == [ss EXCEPT ![key].ttl = t]
      out1 == Append(out, Packet(addr, "stun"))
  IN IF addr \notin DOMAIN cs
       THEN IF cl_ok
              THEN Handled(MapRestrict(ss1, DOMAIN ss1 \ {key}),
                           MapInsert(cs, addr, ClientNew(t)), out1, rtc, <<>>, FALSE)
              ELSE Handled(ss1, cs, out1, rtc,
                           IF cb THEN <<Event(0, addr)>> ELSE <<>>, ~cb)
       ELSE Handled(ss1, cs, out1, rtc, <<>>, FALSE)

\* answer_binding that makes a Client only while the table holds none
answer_binding_one_client(ss, cs, out, rtc, cb, addr, key, cl_ok, t) ==
  LET ss1 == [ss EXCEPT ![key].ttl = t]
      out1 == Append(out, Packet(addr, "stun"))
  IN IF DOMAIN cs = {}
       THEN IF cl_ok
              THEN Handled(ss1, MapInsert(cs, addr, ClientNew(t)), out1, rtc, <<>>, FALSE)
              ELSE Handled(ss1, cs, out1, rtc,
                           IF cb THEN <<Event(0, addr)>> ELSE <<>>, ~cb)
       ELSE Handled(ss1, cs, out1, rtc, <<>>, FALSE)

\* answer_binding that leaves the session's TTL as it was
answer_binding_no_refresh(ss, cs, out, rtc, cb, addr, key, cl_ok, t) ==
  LET out1 == Append(out, Packet(addr, "stun"))
  IN IF addr \notin DOMAIN cs
       THEN IF cl_ok
              THEN Handled(ss, MapInsert(cs, addr, ClientNew(t)), out1, rtc, <<>>, FALSE)
              ELSE Handled(ss, cs, out1, rtc,
                           IF cb THEN <<Event(0, addr)>> ELSE <<>>, ~cb)
       ELSE Handled(ss, cs, out1, rtc, <<>>, FALSE)

\* Server::receive_packet for a binding request that names the session key,
\* server.rs:458-495: the TTL is refreshed, the success response is queued (the
\* response fits its buffer of MAX_UDP_PAYLOAD_SIZE bytes), and a Client is made
\* for an address that has none.  cl_ok is Client::new succeeding; its failure
\* is reported with EVENT_CB.as_mut().unwrap(), which panics with no callback.
answer_binding(ss, cs, out, rtc, cb, addr, key, cl_ok, t) ==
  LET ss1 == [ss EXCEPT ![key].ttl = t]
      out1 == Append(out, Packet(addr, "stun"))
  IN IF addr \notin DOMAIN cs
       THEN IF cl_ok
              THEN Handled(ss1, MapInsert(cs, addr, ClientNew(t)), out1, rtc, <<>>, FALSE)
              ELSE Handled(ss1, cs, out1, rtc,
                           IF cb THEN <<Event(0, addr)>> ELSE <<>>, ~cb)
       ELSE Handled(ss1, cs, out1, rtc, <<>>, FALSE)

\* take_outgoing_packets on every client of order, in turn
RECURSIVE drain_all(_, _, _)
drain_all(cs, out, order) ==
  IF order = <<>>
    THEN [clients |-> cs, outgoing_udp |-> out]
    ELSE LET tk == take_outgoing_packets(cs[Head(order)])
         IN drain_all([cs EXCEPT ![Head(order)] = tk.client],
                      out \o Repeat(Packet(Head(order), "dtls"), tk.n), Tail(order))

\* feed_client that then drains the output queue of every client in the table
feed_client_drain_all(ss, cs, out, rtc, addr, o, t) ==
  LET rx == receive_incoming_packet(cs[addr], o.rx_ok, o.est, o.k, t)
      c1 == IF rx.err /\ ~shutdown_started(rx.client)
              THEN start_shutdown(rx.client).client
              ELSE rx.client
      da == drain_all([cs EXCEPT ![addr] = c1], out, SetToSeq(DOMAIN cs))
      msgs == IF is_established(da.clients[addr]) /\ ~rx.err THEN o.msgs ELSE <<>>
  IN Handled(ss, da.clients, da.outgoing_udp,
             rtc \o [i \in 1..Len(msgs) |-> [from |-> addr, type |-> msgs[i]]],
             <<>>, FALSE)

\* feed_client that leaves a client alone when it refuses the packet
feed_client_no_escalation(ss, cs, out, rtc, addr, o, t) ==
  LET rx == receive_incoming_packet(cs[addr], o.rx_ok, o.est, o.k, t)
      tk == take_outgoing_packets(rx.client)
      msgs == IF is_established(tk.client) /\ ~rx.err THEN o.msgs ELSE <<>>
  IN Handled(ss, [cs EXCEPT ![addr] = tk.client],
             out \o Repeat(Packet(addr, "dtls"), tk.n),
             rtc \o [i \in 1..Len(msgs) |-> [from |-> addr, type |-> msgs[i]]],
             <<>>, FALSE)

\* Server::receive_packet for a datagram that is no binding request and comes
\* from a client's address, server.rs:498-513
feed_client(ss, cs, out, rtc, addr, o, t) ==
  LET rx == receive_incoming_packet(cs[addr], o.rx_ok, o.est, o.k, t)
      c1 == IF rx.err /\ ~shutdown_started(rx.client)
              THEN start_shutdown(rx.client).client
              ELSE rx.client
      tk == take_outgoing_packets(c1)
      msgs == IF is_established(tk.client) /\ ~rx.err THEN o.msgs ELSE <<>>
  IN Handled(ss, [cs EXCEPT ![addr] = tk.client],
             out \o Repeat(Packet(addr, "dtls"), tk.n),
             rtc \o [i \in 1..Len(msgs) |-> [from |-> addr, type |-> msgs[i]]],
             <<>>, FALSE)

\* Server::receive_packet, server.rs:451-515.  o is what the collaborators do:
\* o.cl_ok Client::new succeeding, o.rx_ok / o.est / o.k the outcome of
\* receive_incoming_packet, o.msgs the messages the client then yields.
receive_packet(ss, cs, out, rtc, cb, addr, pkt, truncated, o, t) ==
  LET req == parse_stun_binding_request(pkt, truncated)
      hit == lookup_session(ss, req)
  IN IF req.some
       THEN IF hit.found
              THEN answer_binding(ss, cs, out, rtc, cb, addr, hit.key, o.cl_ok, t)
              ELSE Handled(ss, cs, out, rtc, <<>>, FALSE)
       ELSE IF addr \in DOMAIN cs
              THEN feed_client(ss, cs, out, rtc, addr, o, t)
              ELSE Handled(ss, cs, out, rtc, <<>>, FALSE)

\* the orders in which a HashMap may be iterated
Orders(S) == {q \in [1..Cardinality(S) -> S] : \A i, j \in DOMAIN q : i # j => q[i] # q[j]}

\* the retain predicate of the client sweep, server.rs:548
client_retained(c, t) ==
  ~is_shutdown(c) /\ t - c.last_activity < RTC_CONNECTION_TIMEOUT

\* session_retained keeping a session whose age is exactly the timeout
session_retained_incl(s, t) == t - s.ttl <= RTC_SESSION_TIMEOUT

\* the retain predicate of the session sweep, server.rs:540
session_retained(s, t) == t - s.ttl < RTC_SESSION_TIMEOUT

\* Server::timeout_clients, server.rs:536-561.  An evicted client that had not
\* started shutdown is reported with EVENT_CB.unwrap()(1002, ..), which panics
\* when no callback is set; visited is then the set of clients retain looked
\* at before the one it panicked on.
timeout_clients(ss, cs, lc, cb, t, visited) ==
  IF t - lc >= CLEANUP_INTERVAL
    THEN LET ss1 == MapRestrict(ss, {k \in DOMAIN ss : session_retained(ss[k], t)})
             gone == {a \in DOMAIN cs : ~client_retained(cs[a], t)}
             told == {a \in gone : ~shutdown_started(cs[a])}
         IN IF cb \/ told = {}
              THEN [sessions |-> ss1, clients |-> MapRestrict(cs, DOMAIN cs \ gone),
                    last_cleanup |-> t, swept |-> TRUE, panic |-> FALSE,
                    events |-> [i \in 1..Cardinality(told) |->
                                  Event(1002, SetToSeq(told)[i])]]
              ELSE [sessions |-> ss1,
                    clients |-> MapRestrict(cs, DOMAIN cs \ (gone \cap (visited \ told))),
                    last_cleanup |-> t, swept |-> TRUE, panic |-> TRUE, events |-> <<>>]
    ELSE [sessions |-> ss, clients |-> cs, last_cleanup |-> lc, swept |-> FALSE,
          panic |-> FALSE, events |-> <<>>]

\* the loop body of generate_periodic_packets, server.rs:522-531, over the
\* clients in the order the map yields them; f gives generate_periodic's outcome
RECURSIVE periodic_loop(_, _, _, _)
periodic_loop(cs, out, order, f) ==
  IF order = <<>>
    THEN [clients |-> cs, outgoing_udp |-> out]
    ELSE LET a == Head(order)
             gp == generate_periodic(cs[a], f[a].ok, f[a].k)
             c1 == IF gp.err /\ ~shutdown_started(gp.client)
                     THEN start_shutdown(gp.client).client
                     ELSE gp.client
             tk == take_outgoing_packets(c1)
         IN periodic_loop([cs EXCEPT ![a] = tk.client],
                          out \o Repeat(Packet(a, "dtls"), tk.n), Tail(order), f)

\* Server::generate_periodic_packets, server.rs:518-533
generate_periodic_packets(cs, out, lgp, t, order, f) ==
  IF t - lgp >= PERIODIC_PACKET_INTERVAL
    THEN LET r == periodic_loop(cs, out, order, f)
         IN [clients |-> r.clients, outgoing_udp |-> r.outgoing_udp,
             last_generate_periodic |-> t]
    ELSE [clients |-> cs, outgoing_udp |-> out, last_generate_periodic |-> lgp]

\* send_core without the arm for NotConnected and NotEstablished: they fall
\* through to the arm that starts the client's shutdown
send_core_no_arm1(cs, out, addr, len, ok) ==
  IF addr \notin DOMAIN cs
    THEN [clients |-> cs, outgoing_udp |-> out, ret |-> "ClientNotConnected", drain |-> FALSE]
    ELSE LET sm == send_message(cs[addr], len, ok) IN
      CASE sm.res = "IncompletePacketWrite" ->
             [clients |-> cs, outgoing_udp |-> out, ret |-> "IncompleteMessageWrite",
              drain |-> FALSE]
        [] sm.res \in {"TransportError", "NotConnected", "NotEstablished"} ->
             LET sd == start_shutdown(sm.client)
             IN [clients |-> [cs EXCEPT ![addr] = sd.client], outgoing_udp |-> out,
                 ret |-> IF sd.started THEN "ClientError" ELSE "ClientNotConnected",
                 drain |-> FALSE]
        [] OTHER ->
             LET tk == take_outgoing_packets(sm.client)
             IN [clients |-> [cs EXCEPT ![addr] = tk.client],
                 outgoing_udp |-> out \o Repeat(Packet(addr, "dtls"), tk.n),
                 ret |-> "Ok", drain |-> TRUE]

\* send_core without the arm for IncompletePacketWrite: it falls through to the
\* arm that starts the client's shutdown
send_core_no_arm2(cs, out, addr, len, ok) ==
  IF addr \notin DOMAIN cs
    THEN [clients |-> cs, outgoing_udp |-> out, ret |-> "ClientNotConnected", drain |-> FALSE]
    ELSE LET sm == send_message(cs[addr], len, ok) IN
      CASE sm.res \in {"NotConnected", "NotEstablished"} ->
             [clients |-> cs, outgoing_udp |-> out, ret |-> "ClientNotConnected",
              drain |-> FALSE]
        [] sm.res \in {"TransportError", "IncompletePacketWrite"} ->
             LET sd == start_shutdown(sm.client)
             IN [clients |-> [cs EXCEPT ![addr] = sd.client], outgoing_udp |-> out,
                 ret |-> IF sd.started THEN "ClientError" ELSE "ClientNotConnected",
                 drain |-> FALSE]
        [] OTHER ->
             LET tk == take_outgoing_packets(sm.client)
             IN [clients |-> [cs EXCEPT ![addr] = tk.client],
                 outgoing_udp |-> out \o Repeat(Packet(addr, "dtls"), tk.n),
                 ret |-> "Ok", drain |-> TRUE]

\* the match of Server::send on send_message's result, server.rs:321-344;
\* drain says whether the call goes on to send_outgoing
send_core(cs, out, addr, len, ok) ==
  IF addr \notin DOMAIN cs
    THEN [clients |-> cs, outgoing_udp |-> out, ret |-> "ClientNotConnected", drain |-> FALSE]
    ELSE LET sm == send_message(cs[addr], len, ok) IN
      CASE sm.res \in {"NotConnected", "NotEstablished"} ->
             [clients |-> cs, outgoing_udp |-> out, ret |-> "ClientNotConnected",
              drain |-> FALSE]
        [] sm.res = "IncompletePacketWrite" ->
             [clients |-> cs, outgoing_udp |-> out, ret |-> "IncompleteMessageWrite",
              drain |-> FALSE]
        [] sm.res = "TransportError" ->
             LET sd == start_shutdown(sm.client)
             IN [clients |-> [cs EXCEPT ![addr] = sd.client], outgoing_udp |-> out,
                 ret |-> IF sd.started THEN "ClientError" ELSE "ClientNotConnected",
                 drain |-> FALSE]
        [] OTHER ->
             LET tk == take_outgoing_packets(sm.client)
             IN [clients |-> [cs EXCEPT ![addr] = tk.client],
                 outgoing_udp |-> out \o Repeat(Packet(addr, "dtls"), tk.n),
                 ret |-> "Ok", drain |-> TRUE]

\* Server::disconnect up to its send_outgoing, server.rs:291-302
disconnect_core(cs, out, addr) ==
  IF addr \in DOMAIN cs
    THEN LET sd == start_shutdown(cs[addr])
             tk == take_outgoing_packets(sd.client)
         IN [clients |-> [cs EXCEPT ![addr] = tk.client],
             outgoing_udp |-> out \o Repeat(Packet(addr, "dtls"), tk.n), drain |-> TRUE]
    ELSE [clients |-> cs, outgoing_udp |-> out, drain |-> FALSE]

\* Server::shutdown, server.rs:595-602: both tables are cleared;
\* drop(self.udp_socket.as_ref()) drops a reference, and the socket stays as it was
shutdown_core(ss, cs, sock) == [sessions |-> EmptyMap, clients |-> EmptyMap, socket_open |-> sock]

----------------------------------------------------------------------------
(* The SDP offer (sdp.rs) and the session endpoint.  An offer is its lines *)
(* and whether the last of them ends in CR or LF.                          *)

Line(attr, val) == [attr |-> attr, val |-> val]
OfferLines ==
  { <<Line("a=ice-ufrag:", r), Line("a=ice-pwd:", "x"), Line("a=mid:", "0")>> : r \in RemoteUsers }
  \cup { <<Line("a=ice-pwd:", "x"), Line("a=mid:", "0")>>,
         <<Line("a=ice-ufrag:", "r1"), Line("a=mid:", "0")>>,
         <<Line("a=ice-ufrag:", "r1"), Line("a=ice-pwd:", "x")>> }
Offers == [lines : OfferLines, terminated : BOOLEAN]

\* the value of the last line of ls that starts with the prefix, "" when none does
RECURSIVE found(_, _)
found(ls, prefix) ==
  IF ls = <<>> THEN ""
  ELSE IF ls[Len(ls)].attr = prefix THEN ls[Len(ls)].val
  ELSE found(SubSeq(ls, 1, Len(ls) - 1), prefix)

\* parse_sdp_fields, sdp.rs:12-56: a line is looked at when its CR or LF is
\* read, so a last line with no line end is never looked at
parse_sdp_fields(offer) ==
  LET ls == IF offer.terminated THEN offer.lines
            ELSE SubSeq(offer.lines, 1, Len(offer.lines) - 1)
      u == found(ls, "a=ice-ufrag:")
      p == found(ls, "a=ice-pwd:")
      m == found(ls, "a=mid:")
  IN [ok |-> u # "" /\ p # "" /\ m # "", ice_ufrag |-> u, ice_passwd |-> p, mid |-> m]

\* IncomingSession, server.rs:623-627
IncomingSession(su, pw, ru) == [server_user |-> su, server_passwd |-> pw, remote_user |-> ru]
NoSession == IncomingSession("-", "-", "-")

----------------------------------------------------------------------------
(* The state machine.                                                      *)

\* the operation that ran last: which one, on which address, in which case
\* (what), what it returned, wrote to the socket and told the event callback
Op(op, addr, what, ret, sent, events) ==
  [op |-> op, addr |-> addr, what |-> what, ret |-> ret, sent |-> sent, events |-> events]

\* Server::new, server.rs:196-248
Init ==
  /\ now = 0
  /\ event_cb \in BOOLEAN
  /\ server = "running"
  /\ socket_open = TRUE
  /\ chan = <<>>
  /\ prod = [p \in Producers |-> [pc |-> "idle", rec |-> NoSession]]
  /\ sessions = EmptyMap
  /\ clients = EmptyMap
  /\ outgoing_udp = <<>>
  /\ incoming_rtc = <<>>
  /\ last_generate_periodic = 0
  /\ last_cleanup = 0
  /\ last = Op("new", NoAddr, "-", "Ok", <<>>, <<>>)
  /\ authenticated = {}
  /\ shutdown_called = FALSE

\* time passes
Advance ==
  /\ now + TimeStep <= MaxTime
  /\ now' = now + TimeStep
  /\ last' = Op("advance", NoAddr, "-", "-", <<>>, <<>>)
  /\ UNCHANGED <<event_cb, server, socket_open, chan, prod, srvvars, authenticated,
                 shutdown_called>>

\* offers that were accepted and have not reached the Server's tables yet
InFlight == Len(chan) + Cardinality({p \in Producers : prod[p].pc = "sending"})

\* the offer a session_request is called with: the value of its a=ice-ufrag:
\* line, whether it has all of a=ice-ufrag:, a=ice-pwd: and a=mid:, and whether
\* its last line ends in CR or LF
OfferCase(offer) ==
  [ufrag |-> found(offer.lines, "a=ice-ufrag:"),
   complete |-> /\ found(offer.lines, "a=ice-ufrag:") # ""
                /\ found(offer.lines, "a=ice-pwd:") # ""
                /\ found(offer.lines, "a=mid:") # "",
   terminated |-> offer.terminated]

\* SessionEndpoint::session_request up to its send, server.rs:134-166: the offer
\* is parsed and the server's credentials are drawn
SessionRequest(p, offer, su, pw, cap) ==
  /\ prod[p].pc = "idle"
  /\ InFlight < cap
  /\ LET f == parse_sdp_fields(offer) IN
       IF f.ok
         THEN /\ prod' = [prod EXCEPT ![p] = [pc |-> "sending",
                                              rec |-> IncomingSession(su, pw, f.ice_ufrag)]]
              /\ last' = Op("session_request", p, OfferCase(offer), "-", <<>>, <<>>)
         ELSE /\ prod' = prod
              /\ last' = Op("session_request", p, OfferCase(offer), "ParseError", <<>>, <<>>)
  /\ UNCHANGED <<now, event_cb, server, socket_open, chan, srvvars, authenticated,
                 shutdown_called>>

\* SessionSend on a channel that takes a record however many it holds
SessionSend_unbounded(p) ==
  /\ prod[p].pc \in {"sending", "woken"}
  /\ \/ /\ server = "dropped"
        /\ chan' = chan
        /\ last' = Op("session_send", p, IF prod[p].pc = "woken" THEN "woken" ELSE "closed",
                      "Disconnected", <<>>, <<>>)
     \/ /\ server # "dropped"
        /\ chan' = Append(chan, prod[p].rec)
        /\ last' = Op("session_send", p, "sent", "Ok", <<>>, <<>>)
  /\ prod' = [prod EXCEPT ![p] = [pc |-> "idle", rec |-> NoSession]]
  /\ UNCHANGED <<now, event_cb, server, socket_open, srvvars, authenticated,
                 shutdown_called>>

\* SessionSend that does not notice the receiver is gone
SessionSend_no_disconnect(p) ==
  /\ prod[p].pc \in {"sending", "woken"}
  /\ Len(chan) < SESSION_BUFFER_SIZE
  /\ chan' = Append(chan, prod[p].rec)
  /\ last' = Op("session_send", p, "sent", "Ok", <<>>, <<>>)
  /\ prod' = [prod EXCEPT ![p] = [pc |-> "idle", rec |-> NoSession]]
  /\ UNCHANGED <<now, event_cb, server, socket_open, srvvars, authenticated,
                 shutdown_called>>

\* session_sender.send and the return of session_request, server.rs:167-171:
\* send fails once the receiver is gone, and waits while the channel is full;
\* a sender that was waiting when the receiver went (pc "woken") is woken up
\* and fails like any other
SessionSend(p) ==
  /\ prod[p].pc \in {"sending", "woken"}
  /\ \/ /\ server = "dropped"
        /\ chan' = chan
        /\ last' = Op("session_send", p, IF prod[p].pc = "woken" THEN "woken" ELSE "closed",
                      "Disconnected", <<>>, <<>>)
     \/ /\ server # "dropped"
        /\ Len(chan) < SESSION_BUFFER_SIZE
        /\ chan' = Append(chan, prod[p].rec)
        /\ last' = Op("session_send", p, "sent", "Ok", <<>>, <<>>)
  /\ prod' = [prod EXCEPT ![p] = [pc |-> "idle", rec |-> NoSession]]
  /\ UNCHANGED <<now, event_cb, server, socket_open, srvvars, authenticated,
                 shutdown_called>>

\* ProcessIncomingSession that reads the channel's head and leaves it there
ProcessIncomingSession_peek ==
  /\ server = "running"
  /\ incoming_rtc = <<>>
  /\ chan # <<>>
  /\ chan' = chan
  /\ sessions' = accept_session(sessions, Head(chan), now)
  /\ last' = Op("session", NoAddr,
                IF SessionKey(Head(chan).server_user, Head(chan).remote_user) \in DOMAIN sessions
                  THEN "replaced" ELSE "inserted", "Ok", <<>>, <<>>)
  /\ UNCHANGED <<now, event_cb, server, socket_open, prod, clients, outgoing_udp,
                 incoming_rtc, last_generate_periodic, last_cleanup, authenticated,
                 shutdown_called>>

\* process, the arm Next::IncomingSession, server.rs:392-394 and 406-409;
\* recv calls process only while incoming_rtc is empty, server.rs:362-364
ProcessIncomingSession ==
  /\ server = "running"
  /\ incoming_rtc = <<>>
  /\ chan # <<>>
  /\ chan' = Tail(chan)
  /\ sessions' = accept_session(sessions, Head(chan), now)
  /\ last' = Op("session", NoAddr,
                IF SessionKey(Head(chan).server_user, Head(chan).remote_user) \in DOMAIN sessions
                  THEN "replaced" ELSE "inserted", "Ok", <<>>, <<>>)
  /\ UNCHANGED <<now, event_cb, server, socket_open, prod, clients, outgoing_udp,
                 incoming_rtc, last_generate_periodic, last_cleanup, authenticated,
                 shutdown_called>>

\* the outcomes of send_outgoing on the queue q: fails says whether the socket
\* can fail a send_to or write it short; a failure that would leave more than
\* MaxQueued packets behind is not explored
FailPoints(q, fails) ==
  IF fails THEN {i \in 0..Len(q) : i = 0 \/ Len(q) - i <= MaxQueued} ELSE {0}

\* what the collaborators can do with the datagram: Client::new is reached by a
\* binding request that matches a session and comes from a new address, the
\* client's DTLS/SCTP by anything that is no binding request
Outcome(cl_ok, rx_ok, est, k, msgs) ==
  [cl_ok |-> cl_ok, rx_ok |-> rx_ok, est |-> est, k |-> k, msgs |-> msgs]
Outcomes(req, addr) ==
  IF req.some
    THEN IF SessionKey(req.server_user, req.remote_user) \in DOMAIN sessions
            /\ addr \notin DOMAIN clients
           THEN {Outcome(b, TRUE, FALSE, 0, <<>>) : b \in BOOLEAN}
           ELSE {Outcome(TRUE, TRUE, FALSE, 0, <<>>)}
    ELSE IF addr \in DOMAIN clients
      THEN {Outcome(TRUE, FALSE, FALSE, 0, <<>>)}
           \cup IF shutdown_started(clients[addr])
                  THEN {Outcome(TRUE, TRUE, FALSE, 0, <<>>)}
                  ELSE {Outcome(TRUE, TRUE, e, k, m) :
                          e \in IF clients[addr].state = "Starting" THEN BOOLEAN ELSE {FALSE},
                          k \in {0, MaxBurst},
                          m \in IF clients[addr].state = "Established" THEN MsgBatches
                                ELSE {<<>>}}
                       \cup {Outcome(TRUE, TRUE, TRUE, MaxBurst, m) :
                               m \in IF clients[addr].state = "Starting" THEN MsgBatches
                                     ELSE {}}
      ELSE {Outcome(TRUE, TRUE, FALSE, 0, <<>>)}

\* the case a datagram handler is in when it starts, and the session key the
\* datagram names
NoKey == SessionKey("-", "-")
PacketCase(addr, req) ==
  [case |-> IF req.some
              THEN IF SessionKey(req.server_user, req.remote_user) \notin DOMAIN sessions
                     THEN "stun_unknown"
                     ELSE IF addr \in DOMAIN clients THEN "stun_known" ELSE "stun_new"
              ELSE IF addr \in DOMAIN clients THEN "data_client" ELSE "data_unknown",
   key |-> IF req.some THEN SessionKey(req.server_user, req.remote_user) ELSE NoKey]

\* the case of a datagram, whether the client it was fed to refused it
\* (receive_incoming_packet returned an error, server.rs:500), whether the
\* datagram on the wire was longer than the receive buffer, and whether the
\* session it names had reached RTC_SESSION_TIMEOUT when it came
PacketStep(addr, req, o, pkt) ==
  [case |-> PacketCase(addr, req).case, key |-> PacketCase(addr, req).key,
   err |-> PacketCase(addr, req).case = "data_client" /\ ~o.rx_ok,
   over |-> pkt.len > MAX_UDP_PAYLOAD_SIZE,
   stale |-> /\ PacketCase(addr, req).key \in DOMAIN sessions
             /\ now - sessions[PacketCase(addr, req).key].ttl >= RTC_SESSION_TIMEOUT]

\* process, the arm Next::IncomingPacket, server.rs:382-386, 395-398 and 410-421
ProcessIncomingPacket(addr, pkt, io_ok, fails) ==
  /\ server = "running"
  /\ incoming_rtc = <<>>
  /\ LET rf == recv_from(pkt, MAX_UDP_PAYLOAD_SIZE)
         req == parse_stun_binding_request(pkt, rf.truncated)
     IN
     IF ~io_ok \/ rf.len > MAX_UDP_PAYLOAD_SIZE
       THEN /\ last' = Op("packet", IF io_ok THEN addr ELSE NoAddr,
                            [case |-> "io_error", key |-> NoKey, err |-> FALSE,
                             over |-> pkt.len > MAX_UDP_PAYLOAD_SIZE, stale |-> FALSE],
                            "IoError", <<>>, <<>>)
            /\ UNCHANGED <<server, srvvars, authenticated>>
       ELSE \E o \in Outcomes(req, addr) :
         LET r == receive_packet(sessions, clients, outgoing_udp, incoming_rtc,
                                 event_cb, addr, pkt, rf.truncated, o, now)
         IN /\ authenticated' = IF ValidIntegrity(sessions, pkt) /\ ~rf.truncated
                                  THEN authenticated \cup {addr} ELSE authenticated
            /\ sessions' = r.sessions
            /\ clients' = r.clients
            /\ incoming_rtc' = r.incoming_rtc
            /\ UNCHANGED <<last_generate_periodic, last_cleanup>>
            /\ IF r.panic
                 THEN /\ server' = "panicked"
                      /\ outgoing_udp' = r.outgoing_udp
                      /\ last' = Op("packet", addr, PacketStep(addr, req, o, pkt), "panic",
                                    <<>>, r.events)
                 ELSE \E fail_at \in FailPoints(r.outgoing_udp, fails) :
                   LET so == send_outgoing(r.outgoing_udp, fail_at)
                   IN /\ server' = server
                      /\ outgoing_udp' = so.queue
                      /\ last' = Op("packet", addr, PacketStep(addr, req, o, pkt),
                                    IF so.ok THEN "Ok" ELSE "IoError", so.sent, r.events)
  /\ UNCHANGED <<now, event_cb, socket_open, chan, prod, shutdown_called>>

\* the case a tick is in when it starts: what its sweep, when one is due, will
\* find expired and idle
TickCase ==
  IF now - last_cleanup >= CLEANUP_INTERVAL
    THEN [swept |-> TRUE,
          expired |-> {k \in DOMAIN sessions : now - sessions[k].ttl >= RTC_SESSION_TIMEOUT},
          idle |-> {a \in DOMAIN clients :
                      now - clients[a].last_activity >= RTC_CONNECTION_TIMEOUT}]
    ELSE [swept |-> FALSE, expired |-> {}, idle |-> {}]

\* the case of a tick and the clients whose generate_periodic returned an
\* error in it (server.rs:523)
TickStep(failed) ==
  [swept |-> TickCase.swept, expired |-> TickCase.expired, idle |-> TickCase.idle,
   failed |-> failed]

\* process, the arm Next::PeriodicTimer, server.rs:399-401 and 422-427
ProcessPeriodicTimer(fails) ==
  /\ server = "running"
  /\ incoming_rtc = <<>>
  /\ \E visited \in SUBSET DOMAIN clients :
       LET tc == timeout_clients(sessions, clients, last_cleanup, event_cb, now, visited)
       IN /\ sessions' = tc.sessions
          /\ last_cleanup' = tc.last_cleanup
          /\ IF tc.panic
               THEN /\ server' = "panicked"
                    /\ clients' = tc.clients
                    /\ last' = Op("tick", NoAddr, TickStep({}), "panic", <<>>, tc.events)
                    /\ UNCHANGED <<outgoing_udp, last_generate_periodic>>
               ELSE /\ visited = {}
                    /\ \E order \in Orders(DOMAIN tc.clients) :
                       \E f \in [DOMAIN tc.clients -> [ok : BOOLEAN, k : {0, MaxBurst}]] :
                         LET gp == generate_periodic_packets(tc.clients, outgoing_udp,
                                     last_generate_periodic, now, order, f)
                         IN \E fail_at \in FailPoints(gp.outgoing_udp, fails) :
                              LET so == send_outgoing(gp.outgoing_udp, fail_at)
                              IN /\ server' = server
                                 /\ clients' = gp.clients
                                 /\ last_generate_periodic' = gp.last_generate_periodic
                                 /\ outgoing_udp' = so.queue
                                 /\ last' = Op("tick", NoAddr,
                                               TickStep(IF now - last_generate_periodic
                                                             >= PERIODIC_PACKET_INTERVAL
                                                          THEN {a \in DOMAIN f : ~f[a].ok}
                                                          ELSE {}),
                                               IF so.ok THEN "Ok" ELSE "IoError",
                                               so.sent, tc.events)
  /\ UNCHANGED <<now, event_cb, socket_open, chan, prod, incoming_rtc, authenticated,
                 shutdown_called>>

PayloadLens == {MAX_MESSAGE_LEN, MAX_MESSAGE_LEN + 1}

\* the state of addr's client when send or disconnect starts
ClientCase(addr) == IF addr \in DOMAIN clients THEN clients[addr].state ELSE "absent"

\* Server::send, server.rs:315-351
Send(addr, len, fails) ==
  /\ server = "running"
  /\ \E ok \in IF ClientCase(addr) = "Established" /\ len <= MAX_MESSAGE_LEN
                THEN BOOLEAN ELSE {TRUE} :
       LET r == send_core(clients, outgoing_udp, addr, len, ok)
           what == [state |-> ClientCase(addr), len |-> len]
       IN /\ clients' = r.clients
          /\ IF r.drain
               THEN \E fail_at \in FailPoints(r.outgoing_udp, fails) :
                      LET so == send_outgoing(r.outgoing_udp, fail_at)
                      IN /\ outgoing_udp' = so.queue
                         /\ last' = Op("send", addr, what, IF so.ok THEN "Ok" ELSE "Io",
                                       so.sent, <<>>)
               ELSE /\ outgoing_udp' = r.outgoing_udp
                    /\ last' = Op("send", addr, what, r.ret, <<>>, <<>>)
  /\ UNCHANGED <<now, event_cb, server, socket_open, chan, prod, sessions, incoming_rtc,
                 last_generate_periodic, last_cleanup, authenticated, shutdown_called>>

\* Server::disconnect, server.rs:290-310: send_outgoing's error is dropped
Disconnect(addr, fails) ==
  /\ server = "running"
  /\ LET r == disconnect_core(clients, outgoing_udp, addr)
     IN /\ clients' = r.clients
        /\ IF r.drain
             THEN \E fail_at \in FailPoints(r.outgoing_udp, fails) :
                    LET so == send_outgoing(r.outgoing_udp, fail_at)
                    IN /\ outgoing_udp' = so.queue
                       /\ last' = Op("disconnect", addr, ClientCase(addr), "Ok",
                                     so.sent, <<>>)
             ELSE /\ outgoing_udp' = r.outgoing_udp
                  /\ last' = Op("disconnect", addr, ClientCase(addr), "Ok", <<>>, <<>>)
  /\ UNCHANGED <<now, event_cb, server, socket_open, chan, prod, sessions, incoming_rtc,
                 last_generate_periodic, last_cleanup, authenticated, shutdown_called>>

\* Server::shutdown, server.rs:595-602
Shutdown ==
  /\ server = "running"
  /\ LET r == shutdown_core(sessions, clients, socket_open)
     IN /\ sessions' = r.sessions
        /\ clients' = r.clients
        /\ socket_open' = r.socket_open
  /\ shutdown_called' = TRUE
  /\ last' = Op("shutdown", NoAddr, "-", "Ok", <<>>, <<>>)
  /\ UNCHANGED <<now, event_cb, server, chan, prod, outgoing_udp, incoming_rtc,
                 last_generate_periodic, last_cleanup, authenticated>>

\* RecvReturn handing out the message queued last
RecvReturn_newest_first ==
  /\ server = "running"
  /\ incoming_rtc # <<>>
  /\ incoming_rtc' = SubSeq(incoming_rtc, 1, Len(incoming_rtc) - 1)
  /\ last' = Op("recv", incoming_rtc[Len(incoming_rtc)].from,
                incoming_rtc[Len(incoming_rtc)].type, "Ok", <<>>, <<>>)
  /\ UNCHANGED <<now, event_cb, server, socket_open, chan, prod, sessions, clients,
                 outgoing_udp, last_generate_periodic, last_cleanup, authenticated,
                 shutdown_called>>

\* Server::recv once incoming_rtc holds a message, server.rs:366-371
RecvReturn ==
  /\ server = "running"
  /\ incoming_rtc # <<>>
  /\ incoming_rtc' = Tail(incoming_rtc)
  /\ last' = Op("recv", Head(incoming_rtc).from, Head(incoming_rtc).type, "Ok", <<>>, <<>>)
  /\ UNCHANGED <<now, event_cb, server, socket_open, chan, prod, sessions, clients,
                 outgoing_udp, last_generate_periodic, last_cleanup, authenticated,
                 shutdown_called>>

\* the Server is dropped: its socket is closed, its tables and queues and the
\* receiving end of the offer channel go with it
ServerDrop ==
  /\ server # "dropped"
  /\ server' = "dropped"
  /\ socket_open' = FALSE
  /\ chan' = <<>>
  /\ sessions' = EmptyMap
  /\ clients' = EmptyMap
  /\ outgoing_udp' = <<>>
  /\ incoming_rtc' = <<>>
  /\ prod' = [p \in Producers |->
               IF prod[p].pc = "sending" /\ Len(chan) = SESSION_BUFFER_SIZE
                 THEN [prod[p] EXCEPT !.pc = "woken"] ELSE prod[p]]
  /\ last' = Op("drop", NoAddr, "-", "-", <<>>, <<>>)
  /\ UNCHANGED <<now, event_cb, last_generate_periodic, last_cleanup,
                 authenticated, shutdown_called>>

----------------------------------------------------------------------------
(* Spec: the handshake and the application's operations, with a socket     *)
(* that can fail; no time passes.                                          *)

Next ==
  \/ \E offer \in Offers, su \in ServerUsers :
       SessionRequest("e1", offer, su, "p1", MaxOffers)
  \/ SessionSend("e1")
  \/ ProcessIncomingSession
  \/ \E addr \in Addrs, pkt \in Fitting, io_ok \in BOOLEAN :
       ProcessIncomingPacket(addr, pkt, io_ok, FALSE)
  \/ \E addr \in Addrs, len \in PayloadLens : Send(addr, len, FALSE)
  \/ \E addr \in Addrs : Disconnect(addr, FALSE)
  \/ RecvReturn

Spec == Init /\ [][Next]_vars

----------------------------------------------------------------------------
(* SpecTime: the handshake of one peer under a clock that advances, with   *)
(* the periodic tick and its housekeeping.                                 *)

NextTime ==
  \/ Advance
  \/ \E offer \in Offers, su \in ServerUsers :
       SessionRequest("e1", offer, su, "p1", MaxOffers)
  \/ SessionSend("e1")
  \/ ProcessIncomingSession
  \/ \E pkt \in Fitting, io_ok \in BOOLEAN :
       ProcessIncomingPacket("a1", pkt, io_ok, FALSE)
  \/ ProcessPeriodicTimer(FALSE)
  \/ Disconnect("a1", FALSE)
  \/ RecvReturn

SpecTime == Init /\ [][NextTime]_vars

\* the server on a socket whose send_to can fail or write short
NextFail ==
  \/ \E offer \in Offers, su \in ServerUsers : SessionRequest("e1", offer, su, "p1", MaxOffers)
  \/ SessionSend("e1")
  \/ ProcessIncomingSession
  \/ \E pkt \in Fitting, io_ok \in BOOLEAN : ProcessIncomingPacket("a1", pkt, io_ok, TRUE)
  \/ \E len \in PayloadLens : Send("a1", len, TRUE)
  \/ Disconnect("a1", TRUE)
  \/ RecvReturn
SpecFail == Init /\ [][NextFail]_vars

\* the server around a call of shutdown
NextShut ==
  \/ \E offer \in Offers, su \in ServerUsers : SessionRequest("e1", offer, su, "p1", MaxOffers)
  \/ SessionSend("e1")
  \/ ProcessIncomingSession
  \/ \E pkt \in Fitting, io_ok \in BOOLEAN : ProcessIncomingPacket("a1", pkt, io_ok, FALSE)
  \/ Shutdown
  \/ RecvReturn
SpecShut == Init /\ [][NextShut]_vars

\* the offer channel: every endpoint clone calls session_request as fast as it
\* can, the Server takes the offers one at a time and may be dropped
NextChan ==
  \/ \E p \in Producers, offer \in Offers :
       SessionRequest(p, offer, "u1", "p1", SESSION_BUFFER_SIZE + Cardinality(Producers))
  \/ \E p \in Producers : SessionSend(p)
  \/ ProcessIncomingSession
  \/ ServerDrop
SpecChan == Init /\ [][NextChan]_vars

\* two peers whose clients' DTLS/SCTP can fail on a datagram and on a tick;
\* datagrams that reach receive_packet only, and the clock moving once
AdvanceOnce == now = 0 /\ Advance
NextErr ==
  \/ AdvanceOnce
  \/ \E offer \in {o \in Offers : parse_sdp_fields(o).ok} :
       SessionRequest("e1", offer, "u1", "p1", MaxOffers)
  \/ SessionSend("e1")
  \/ ProcessIncomingSession
  \/ \E addr \in Addrs, pkt \in {d \in Fitting : d.kind = "stun" => d.integrity = "p1"} :
       ProcessIncomingPacket(addr, pkt, TRUE, FALSE)
  \/ ProcessPeriodicTimer(FALSE)
  \/ RecvReturn
SpecErr == Init /\ [][NextErr]_vars

\* one peer that also sends datagrams longer than the receive buffer
NextBig ==
  \/ \E offer \in {o \in Offers : parse_sdp_fields(o).ok} :
       SessionRequest("e1", offer, "u1", "p1", MaxOffers)
  \/ SessionSend("e1")
  \/ ProcessIncomingSession
  \/ \E pkt \in Datagrams, io_ok \in BOOLEAN : ProcessIncomingPacket("a1", pkt, io_ok, FALSE)
  \/ RecvReturn
SpecBig == Init /\ [][NextBig]_vars

\* offers before and after the clock moves: the endpoint may draw the same
\* server_user again, with another password, and one peer sends binding requests
NextSess ==
  \/ AdvanceOnce
  \/ \E offer \in {o \in Offers : parse_sdp_fields(o).ok}, su \in {"u1", "u2"}, pw \in Passwds :
       SessionRequest("e1", offer, su, pw, MaxOffers)
  \/ SessionSend("e1")
  \/ ProcessIncomingSession
  \/ \E pkt \in {d \in StunPackets : d.integrity = "none"} :
       ProcessIncomingPacket("a1", pkt, TRUE, FALSE)
SpecSess == Init /\ [][NextSess]_vars

\* a session that grows old: the application leaves recv alone for
\* RTC_SESSION_TIMEOUT at a time, so that nothing runs and no sweep is made
\* while the clock moves; the operation that ran last stays the same
Idle ==
  /\ now + RTC_SESSION_TIMEOUT <= 2 * RTC_SESSION_TIMEOUT
  /\ now' = now + RTC_SESSION_TIMEOUT
  /\ UNCHANGED <<event_cb, server, socket_open, chan, prod, srvvars, last, authenticated,
                 shutdown_called>>
NextExp ==
  \/ Idle
  \/ \E offer \in {o \in Offers : parse_sdp_fields(o).ok} :
       SessionRequest("e1", offer, "u1", "p1", MaxOffers)
  \/ SessionSend("e1")
  \/ ProcessIncomingSession
  \/ \E addr \in Addrs, pkt \in {d \in StunPackets : d.integrity = "p1"} :
       ProcessIncomingPacket(addr, pkt, TRUE, FALSE)
  \/ ProcessPeriodicTimer(FALSE)
SpecExp == Init /\ [][NextExp]_vars

\* the application reading messages: two peers, datagrams that yield up to two
\* messages, a clock that moves once so that a sweep finds idle clients, and
\* the application disconnecting peers between its calls of recv
NextRecv ==
  \/ AdvanceOnce
  \/ \E offer \in {o \in Offers : parse_sdp_fields(o).ok} :
       SessionRequest("e1", offer, "u1", "p1", MaxOffers)
  \/ SessionSend("e1")
  \/ ProcessIncomingSession
  \/ \E addr \in Addrs, pkt \in {d \in Fitting : d.kind = "stun" => d.integrity = "p1"},
        io_ok \in BOOLEAN :
       ProcessIncomingPacket(addr, pkt, io_ok, FALSE)
  \/ ProcessPeriodicTimer(FALSE)
  \/ \E addr \in Addrs : Disconnect(addr, FALSE)
  \/ RecvReturn
SpecRecv == Init /\ [][NextRecv]_vars

\* the offer channel under an application that keeps calling recv: one
\* endpoint sends offers whose records differ in the password drawn, recv takes
\* them whenever the select finds one (weak fairness: a record that waits in
\* the channel is taken), a send whose channel has room completes, and the
\* application may drop the Server
NextLive ==
  \/ \E offer \in {o \in Offers : parse_sdp_fields(o).ok}, pw \in Passwds :
       SessionRequest("e1", offer, "u1", pw, SESSION_BUFFER_SIZE + 1)
  \/ SessionSend("e1")
  \/ ProcessIncomingSession
  \/ ServerDrop
SpecLive ==
  /\ Init /\ [][NextLive]_vars
  /\ WF_vars(SessionSend("e1"))
  /\ WF_vars(ProcessIncomingSession)

----------------------------------------------------------------------------
(* The claims.                                                             *)

IsPrefix(q, r) == Len(q) <= Len(r) /\ q = SubSeq(r, 1, Len(q))
IsSuffix(q, r) == Len(q) <= Len(r) /\ q = SubSeq(r, Len(r) - Len(q) + 1, Len(r))

\* C1: every address that has a Client has sent at least one STUN binding
\* request whose MESSAGE-INTEGRITY was valid under the matched session's
\* server_passwd; an address that only sent unauthenticated packets has none.
C1_ClientsAuthenticated == \A a \in DOMAIN clients : a \in authenticated

\* C2: a STUN binding request whose (server_user, remote_user) is no key of
\* sessions adds no packet to outgoing_udp, writes nothing new to the socket,
\* creates no Client and changes no session: sessions, clients and
\* incoming_rtc are unchanged by the event.
C2_UnknownUsernameIgnored ==
  [][(last'.op = "packet" /\ last'.what.case = "stun_unknown")
       => /\ UNCHANGED <<sessions, clients, incoming_rtc>>
          /\ IsSuffix(outgoing_udp', outgoing_udp)
          /\ IsPrefix(last'.sent, outgoing_udp)]_vars

\* C2 witness: a binding request with an unknown username was handled while
\* another session was waiting
C2_Witness ==
  /\ last.op = "packet" /\ last.what.case = "stun_unknown" /\ last.ret = "Ok"
  /\ last.what.key.server_user = "bogus"
  /\ DOMAIN sessions # {}

\* C3 as claimed: once the first matching binding request has made the Client,
\* the session's key is no longer present in sessions.
C3_SessionRemovedOnUpgrade ==
  [][(last'.op = "packet" /\ last'.what.case = "stun_new" /\ last'.addr \in DOMAIN clients')
       => last'.what.key \notin DOMAIN sessions']_vars

\* C3 as amended: the binding request that makes the Client leaves the session
\* in sessions, its TTL set to now, and no datagram ever takes a session out
\* of the table.
C3_SessionKeptOnUpgrade ==
  [][/\ (last'.op = "packet" /\ last'.what.case = "stun_new"
           /\ last'.addr \in DOMAIN clients')
         => /\ last'.what.key \in DOMAIN sessions'
            /\ sessions'[last'.what.key].ttl = now
            /\ sessions'[last'.what.key].server_passwd
                 = sessions[last'.what.key].server_passwd
     /\ last'.op = "packet" => DOMAIN sessions' = DOMAIN sessions]_vars

\* C3 witness: a binding request has just upgraded a session to a Client
C3_Witness ==
  /\ last.op = "packet" /\ last.what.case = "stun_new"
  /\ last.addr \in DOMAIN clients
  /\ clients[last.addr].state = "Starting"
  /\ last.what.key \in DOMAIN sessions

\* C8: send to an address that has no Client, or whose Client is not
\* Established, returns ClientNotConnected, queues nothing, writes nothing to
\* the socket and leaves clients and sessions as they were.
C8_SendNotConnected ==
  [][(last'.op = "send" /\ last'.what.state # "Established")
       => /\ last'.ret = "ClientNotConnected"
          /\ last'.sent = <<>>
          /\ UNCHANGED <<outgoing_udp, clients, sessions>>]_vars

\* C8 witness: send was called for a client that is still Starting, and for one
\* that is shutting down
C8_Witness ==
  /\ last.op = "send" /\ last.ret = "ClientNotConnected"
  /\ last.what.state \in {"Starting", "ShuttingDown", "Shutdown"}
  /\ clients[last.addr].state = last.what.state

\* C9: send to an Established client with a payload longer than
\* MAX_MESSAGE_LEN returns IncompleteMessageWrite; the client stays
\* Established and nothing is queued or sent.
C9_SendTooLong ==
  [][(last'.op = "send" /\ last'.what.state = "Established"
        /\ last'.what.len > MAX_MESSAGE_LEN)
       => /\ last'.ret = "IncompleteMessageWrite"
          /\ clients'[last'.addr].state = "Established"
          /\ last'.sent = <<>>
          /\ UNCHANGED <<outgoing_udp, clients>>]_vars

\* C9 witness: an over-long payload was refused for an Established client
C9_Witness ==
  /\ last.op = "send" /\ last.what.state = "Established"
  /\ last.what.len = MAX_MESSAGE_LEN + 1
  /\ last.ret = "IncompleteMessageWrite"
  /\ clients[last.addr].state = "Established"

\* C4: a cleanup sweep (a periodic tick with now - last_cleanup >= 10) removes
\* every session whose TTL age is >= 30 and retains, unchanged, every session
\* whose TTL age is < 30.
C4_SweepExpiresSessions ==
  [][(last'.op = "tick" /\ now - last_cleanup >= CLEANUP_INTERVAL)
       => \A k \in DOMAIN sessions :
            /\ now - sessions[k].ttl >= RTC_SESSION_TIMEOUT => k \notin DOMAIN sessions'
            /\ now - sessions[k].ttl < RTC_SESSION_TIMEOUT
                 => k \in DOMAIN sessions' /\ sessions'[k] = sessions[k]]_vars

\* C4 witness: a sweep has just removed a session that was 30 s old
C4_Witness ==
  /\ last.op = "tick" /\ last.what.swept
  /\ last.what.expired # {}
  /\ \A k \in last.what.expired : k \notin DOMAIN sessions
  /\ last_cleanup = now

\* the code=1002 events of a handler's events that name addr
Events1002(events, addr) == {i \in DOMAIN events : events[i] = Event(1002, addr)}

\* C5: a cleanup sweep removes every client whose last_activity age is >= 10
\* and emits exactly one code=1002 event for it, whatever state the client was
\* in.
C5_SweepEvictsWithEvent ==
  [][(last'.op = "tick" /\ now - last_cleanup >= CLEANUP_INTERVAL)
       => \A a \in DOMAIN clients :
            now - clients[a].last_activity >= RTC_CONNECTION_TIMEOUT
              => /\ a \notin DOMAIN clients'
                 /\ Cardinality(Events1002(last'.events, a)) = 1]_vars

\* C5 witness: a sweep has removed an idle client that had started shutdown,
\* and emitted nothing for it
C5_Witness ==
  /\ last.op = "tick" /\ last.what.swept /\ last.ret # "panic"
  /\ last.what.idle # {}
  /\ \A a \in last.what.idle : a \notin DOMAIN clients
  /\ last.events = <<>>

\* C6: outgoing_udp is empty whenever an event handler has returned, with
\* success or with an error: no packet generated by one event is still queued
\* when the next event is selected.
C6_QueueEmptyBetweenEvents == outgoing_udp = <<>>

\* C6 witness: process returned an Io error from send_outgoing and left a
\* packet in the queue
C6_Witness ==
  /\ last.op = "packet" /\ last.ret = "IoError" /\ last.what.case = "data_client"
  /\ outgoing_udp # <<>>

\* C7: once shutdown has returned, clients and sessions are empty and stay
\* empty, the socket is closed, and whatever recv does afterwards ends in an
\* Io error: it takes no session, packet or message.
C7_ShutdownIsFinal ==
  shutdown_called
    => /\ clients = EmptyMap /\ sessions = EmptyMap
       /\ ~socket_open
       /\ last.op \in {"session", "packet", "tick", "recv"} => last.ret = "IoError"

\* C7 witness: after shutdown, recv went on to accept a session and to make a
\* Client for a peer on the socket shutdown left open
C7_Witness ==
  /\ shutdown_called /\ socket_open
  /\ DOMAIN sessions # {} /\ DOMAIN clients # {}
  /\ last.op = "packet" /\ last.ret = "Ok"

C11_DisconnectedIffDropped ==
  /\ [](\A p \in Producers :
          (server = "dropped" /\ prod[p].pc \in {"sending", "woken"})
            => ENABLED SessionSend(p))
  /\ [][last'.op = "session_send"
          => (last'.ret = "Disconnected" <=> server = "dropped")]_vars

\* C11 witness: a session_request that was waiting on the full channel when the
\* Server was dropped has returned Disconnected
C11_Witness ==
  /\ server = "dropped"
  /\ last.op = "session_send" /\ last.what = "woken" /\ last.ret = "Disconnected"
  /\ prod[last.addr].pc = "idle"

\* C12: session_request on an offer that lacks one of a=ice-ufrag:, a=ice-pwd:
\* and a=mid: returns ParseError, puts nothing on its way to the channel and
\* leaves chan, sessions and clients as they were; on an offer that has all
\* three it does not fail, and the one record it goes on to send carries the
\* offer's ice-ufrag as remote_user.
C12_OfferParsing ==
  [][last'.op = "session_request"
       => /\ UNCHANGED <<chan, sessions, clients>>
          /\ IF last'.what.complete
               THEN /\ last'.ret # "ParseError"
                    /\ prod'[last'.addr].pc = "sending"
                    /\ prod'[last'.addr].rec.remote_user = last'.what.ufrag
               ELSE /\ last'.ret = "ParseError"
                    /\ prod' = prod]_vars

\* C12 witness: an offer with all three lines, the last of them not ended by
\* CR or LF, was refused with ParseError
C12_Witness ==
  /\ last.op = "session_request"
  /\ last.what.complete /\ ~last.what.terminated
  /\ last.ret = "ParseError"
  /\ prod[last.addr].pc = "idle"

\* C13: no event handler panics, whatever the offers, datagrams, silences and
\* ticks are and whether or not an event callback was given to Server::new.
C13_NeverPanics == server # "panicked"

\* C13 witness: with no callback configured, the sweep that found an idle
\* client panicked
C13_Witness ==
  /\ ~event_cb
  /\ server = "panicked"
  /\ last.op = "tick" /\ last.ret = "panic"
  /\ last.what.idle # {}

\* C14: when receive_incoming_packet fails for the client at an address, or
\* generate_periodic fails for it on a tick, that client has shutdown started
\* afterwards, the handler returns no error and does not panic, sessions is
\* what it would have been without the failure, and every other client that
\* did not fail itself and was not swept is as it was.
C14_ClientErrorIsLocal ==
  [][/\ (last'.op = "packet" /\ last'.what.case = "data_client" /\ last'.what.err)
          => /\ last'.ret = "Ok"
             /\ server' = server
             /\ last'.addr \in DOMAIN clients'
             /\ shutdown_started(clients'[last'.addr])
             /\ sessions' = sessions
             /\ DOMAIN clients' = DOMAIN clients
             /\ \A b \in DOMAIN clients \ {last'.addr} : clients'[b] = clients[b]
     /\ (last'.op = "tick" /\ last'.what.failed # {})
          => /\ last'.ret = "Ok"
             /\ server' = server
             /\ \A a \in last'.what.failed :
                  a \in DOMAIN clients' /\ shutdown_started(clients'[a])
             /\ sessions' = MapRestrict(sessions, DOMAIN sessions \ last'.what.expired)
             /\ \A b \in DOMAIN clients' \ last'.what.failed : clients'[b] = clients[b]]_vars

\* C14 witness: on one tick generate_periodic failed for one Established client
\* and not for the other: the first is shut down, its close-notify was sent,
\* and the other is still Established
C14_Witness ==
  /\ last.op = "tick" /\ last.ret = "Ok"
  /\ \E a \in last.what.failed, b \in DOMAIN clients \ last.what.failed :
       /\ clients[a].state = "Shutdown"
       /\ Packet(a, "dtls") \in {last.sent[i] : i \in DOMAIN last.sent}
       /\ clients[b].state = "Established"

\* C15: disconnect returns Ok; for an address with no Client, or whose Client
\* is not Established, it changes no client, queues nothing and sends nothing;
\* for an Established Client it starts shutdown and writes that client's
\* close-notify to the socket.
C15_DisconnectOnlyConnected ==
  [][last'.op = "disconnect"
       => /\ last'.ret = "Ok"
          /\ IF last'.what = "Established"
               THEN /\ shutdown_started(clients'[last'.addr])
                    /\ last'.sent = <<Packet(last'.addr, "dtls")>>
                    /\ outgoing_udp' = <<>>
               ELSE /\ UNCHANGED <<clients, outgoing_udp>>
                    /\ last'.sent = <<>>]_vars

\* C15 witness: disconnect was called for a client that was still Starting,
\* and the client is no longer Starting
C15_Witness ==
  /\ last.op = "disconnect" /\ last.what = "Starting" /\ last.ret = "Ok"
  /\ shutdown_started(clients[last.addr])

\* C16: a datagram whose payload is longer than MAX_UDP_PAYLOAD_SIZE makes recv
\* return an Io error; it is not cut to 1500 bytes and handed to the STUN
\* parser or to a Client: the tables and queues are as they were.
C16_OversizedRejected ==
  [][(last'.op = "packet" /\ last'.what.over)
       => /\ last'.ret = "IoError"
          /\ UNCHANGED <<sessions, clients, outgoing_udp, incoming_rtc>>]_vars

\* C16 witness: a datagram longer than the buffer was cut and fed to the
\* peer's Client, which answered it, and recv went on
C16_Witness ==
  /\ last.op = "packet" /\ last.what.over /\ last.what.case = "data_client"
  /\ last.ret = "Ok"
  /\ last.sent # <<>>

\* C17: start_shutdown returns true on a client whose shutdown has not started
\* and false on every later call, which leaves the client as it was; and a
\* client whose shutdown has started is never Starting or Established again,
\* whichever of disconnect, send and the datagram handler touches it next.
C17_StartShutdownIdempotent ==
  /\ [](\A a \in DOMAIN clients :
          LET first == start_shutdown(clients[a])
              again == start_shutdown(first.client)
          IN /\ first.started <=> ~shutdown_started(clients[a])
             /\ shutdown_started(first.client)
             /\ ~again.started
             /\ again.client = first.client)
  /\ [][\A a \in DOMAIN clients :
          shutdown_started(clients[a])
            => a \in DOMAIN clients' /\ shutdown_started(clients'[a])]_vars

\* C17 witness: disconnect was called for a client whose shutdown send's error
\* path had started, while the other peer's client was Established
C17_Witness ==
  /\ last.op = "disconnect" /\ last.what = "ShuttingDown"
  /\ shutdown_started(clients[last.addr])
  /\ \E b \in DOMAIN clients : clients[b].state = "Established"

\* C18: taking a pending session from the offer channel puts it in sessions
\* under (server_user, remote_user) with its server_passwd and TTL = now; an
\* entry the key already had is replaced and the table does not grow, every
\* other session is as it was, and clients, outgoing_udp and incoming_rtc are
\* unchanged.
C18_AcceptSessionInserts ==
  [][last'.op = "session"
       => LET rec == Head(chan)
              key == SessionKey(rec.server_user, rec.remote_user)
          IN /\ DOMAIN sessions' = DOMAIN sessions \cup {key}
             /\ sessions'[key] = Session(rec.server_passwd, now)
             /\ \A k \in DOMAIN sessions \ {key} : sessions'[k] = sessions[k]
             /\ key \in DOMAIN sessions
                  => Cardinality(DOMAIN sessions') = Cardinality(DOMAIN sessions)
             /\ chan' = Tail(chan)
             /\ UNCHANGED <<clients, outgoing_udp, incoming_rtc>>]_vars

\* C18 witness: a session was replaced, later than it was first inserted, by a
\* record with the other password, next to another session and a client
C18_Witness ==
  /\ last.op = "session" /\ last.what = "replaced"
  /\ now > 0
  /\ \E k \in DOMAIN sessions :
       /\ sessions[k] = Session("p2", now)
       /\ \E j \in DOMAIN sessions \ {k} : sessions[j].ttl < now
  /\ DOMAIN clients # {}

\* C19: a binding request from an address that names a known session sets that
\* session's TTL to now and has exactly one STUN success for the address
\* queued and sent; a Client is made for the address if and only if it had
\* none; a Client it already had is left as it was, and the packet is not fed
\* to it (no client packet, no message).
C19_BindingRequestAnswered ==
  [][(last'.op = "packet" /\ last'.what.case \in {"stun_new", "stun_known"})
       => /\ sessions'[last'.what.key].ttl = now
          /\ last'.sent = <<Packet(last'.addr, "stun")>>
          /\ outgoing_udp' = <<>>
          /\ incoming_rtc' = incoming_rtc
          /\ last'.addr \in DOMAIN clients'
          /\ DOMAIN clients' = DOMAIN clients \cup {last'.addr}
          /\ \A b \in DOMAIN clients : clients'[b] = clients[b]]_vars

\* C19 witness: Client::new failed for the first binding request of a peer and
\* no callback was there to be told: the handler panicked with the STUN
\* success queued and never sent, and the peer has no Client
C19_Witness ==
  /\ last.op = "packet" /\ last.what.case = "stun_new" /\ last.ret = "panic"
  /\ outgoing_udp = <<Packet(last.addr, "stun")>>
  /\ last.sent = <<>>
  /\ last.addr \notin DOMAIN clients

\* C20: a datagram that is no STUN binding request and comes from an address
\* with no Client changes none of sessions, clients, outgoing_udp and
\* incoming_rtc and has nothing sent.  From an address that has a Client it is
\* fed to that Client only: sessions and every other client are as they were,
\* and every packet sent and every message queued for it carries that address.
C20_DataPacketDispatch ==
  [][/\ (last'.op = "packet" /\ last'.what.case = "data_unknown")
          => /\ UNCHANGED <<sessions, clients, outgoing_udp, incoming_rtc>>
             /\ last'.sent = <<>>
     /\ (last'.op = "packet" /\ last'.what.case = "data_client")
          => /\ sessions' = sessions
             /\ DOMAIN clients' = DOMAIN clients
             /\ \A b \in DOMAIN clients \ {last'.addr} : clients'[b] = clients[b]
             /\ \A i \in DOMAIN last'.sent : last'.sent[i] = Packet(last'.addr, "dtls")
             /\ outgoing_udp' = outgoing_udp
             /\ \A i \in DOMAIN incoming_rtc' : incoming_rtc'[i].from = last'.addr]_vars

\* C20 witness: a datagram from one peer was fed to its Client, which answered
\* and yielded a message, while the other peer's Client had a close-notify
\* waiting that was left where it was
C20_Witness ==
  /\ last.op = "packet" /\ last.what.case = "data_client" /\ ~last.what.err
  /\ last.sent # <<>>
  /\ incoming_rtc # <<>>
  /\ \E b \in DOMAIN clients \ {last.addr} : clients[b].pending > 0

\* what C21 says of the binding request itself: one that names a session whose
\* TTL age has reached RTC_SESSION_TIMEOUT and that no sweep has removed is
\* answered with a STUN success, makes a Client for an address that has none
\* (unless Client::new fails), and sets the session's TTL to now
StaleRequestAccepted ==
  [][(now' = now /\ last'.op = "packet" /\ last'.what.stale /\ last'.ret = "Ok")
       => /\ last'.what.case \in {"stun_new", "stun_known"}
          /\ now - sessions[last'.what.key].ttl >= RTC_SESSION_TIMEOUT
          /\ last'.sent = <<Packet(last'.addr, "stun")>>
          /\ last'.what.key \in DOMAIN sessions'
          /\ sessions'[last'.what.key].ttl = now
          /\ (last'.addr \in DOMAIN clients => clients' = clients)
          /\ (last'.addr \notin DOMAIN clients =>
                \/ clients' = MapInsert(clients, last'.addr, ClientNew(now))
                \/ clients' = clients /\ last'.events = <<Event(0, last'.addr)>>)]_vars

C23_RecvFifo ==
  [][/\ last'.op = "recv"
          => /\ incoming_rtc # <<>>
             /\ last'.addr = Head(incoming_rtc).from
             /\ last'.what = Head(incoming_rtc).type
             /\ last'.ret = "Ok"
             /\ incoming_rtc' = Tail(incoming_rtc)
             /\ UNCHANGED <<sessions, clients, outgoing_udp, chan, last_cleanup,
                            last_generate_periodic>>
     /\ last'.op # "recv" => IsPrefix(incoming_rtc, incoming_rtc')
     /\ last'.op \in {"session", "packet", "tick"} => incoming_rtc = <<>>
     /\ last'.op \in {"session", "tick", "disconnect"} => incoming_rtc' = incoming_rtc
     /\ (last'.op = "packet" /\ incoming_rtc' # incoming_rtc)
          => /\ last'.addr \in DOMAIN clients
             /\ last'.ret \in {"Ok", "IoError"}
             /\ \A i \in DOMAIN incoming_rtc' : incoming_rtc'[i].from = last'.addr]_vars

\* C23 witness: recv has handed out the first of two messages of a datagram,
\* the second is still queued, and the peer they came from has been
\* disconnected in between or is gone from the table
C23_Witness ==
  /\ last.op = "recv" /\ last.what = "Text"
  /\ incoming_rtc = <<[from |-> last.addr, type |-> "Binary"]>>
  /\ \/ last.addr \notin DOMAIN clients
     \/ shutdown_started(clients[last.addr])

\* a record with this password is in the offer channel
InChan(pw) == \E i \in DOMAIN chan : chan[i].server_passwd = pw
\* the session_request of endpoint clone p waits on the full channel
Blocked(p) == prod[p].pc = "sending" /\ Len(chan) = SESSION_BUFFER_SIZE

\* what C24 says of an application that keeps calling recv (the Server stays
\* alive): every record a session_request has sent is eventually in sessions,
\* and a session_request that waits on the full channel eventually returns
OffersProgress ==
  [](server = "running")
    => /\ \A pw \in Passwds :
            InChan(pw) ~> (/\ SessionKey("u1", "r1") \in DOMAIN sessions
                           /\ sessions[SessionKey("u1", "r1")].server_passwd = pw)
       /\ Blocked("e1") ~> (prod["e1"].pc = "idle")

\* C24 as stated: with recv called for ever the offers get into sessions and a
\* blocked session_request returns; a session_request that waits on the full
\* channel does not return in any step other than one that follows recv
\* taking a record, so with recv never called again it never returns
C24_BlockedNeverReturnsWithoutRecv ==
  /\ OffersProgress
  /\ [][\A p \in Producers :
          (Blocked(p) \/ prod[p].pc = "woken") => prod'[p].pc # "idle"]_vars

\* C24 amended: with recv called for ever the offers get into sessions and a
\* blocked session_request returns; while the Server is alive and takes no
\* record, a session_request that waits on the full channel stays waiting;
\* once the Server is dropped it returns, with Disconnected and nothing else
C24_BlockedUntilRecvOrDrop ==
  /\ OffersProgress
  /\ [][\A p \in Producers :
          /\ Blocked(p) => prod'[p].pc \in {"sending", "woken"}
          /\ (Blocked(p) /\ prod'[p].pc = "woken") => server' = "dropped"
          /\ (prod[p].pc = "woken" /\ prod'[p].pc # "woken")
               => /\ server = "dropped"
                  /\ last'.op = "session_send" /\ last'.ret = "Disconnected"]_vars
  /\ [](\A p \in Producers : prod[p].pc = "woken" => ENABLED SessionSend(p))

\* C24 witness: the channel is full of records of both passwords, a
\* session_request waits on it, and recv has put an earlier record in sessions
C24_Witness ==
  /\ server = "running"
  /\ Blocked("e1")
  /\ \A pw \in Passwds : InChan(pw)
  /\ SessionKey("u1", "r1") \in DOMAIN sessions
  /\ chan[Len(chan)].server_passwd # sessions[SessionKey("u1", "r1")].server_passwd

============================================================================
